---- MODULE Spec2Model ----
(***************************************************************************)
(* Model of the Auth0 -> Descope migration tool (src/main.py and           *)
(* src/migration_utils.py): the retrying call layer, the six paginated     *)
(* readers, the user / role / organization processing loops and main.      *)
(*                                                                         *)
(* Python strings that the code inspects (connection names, e-mails, ids)  *)
(* are sequences of one-character strings, so that `in`, split and + are   *)
(* computed and not assumed.  Python dicts are records whose DOMAIN is the *)
(* set of keys that are present.                                           *)
(***************************************************************************)
EXTENDS Integers, Sequences, FiniteSets, TLC

(* ----------------------------- bounds --------------------------------- *)
MaxItems == 41      \* longest listing drained in the reader specification
MaxUsers == 2       \* longest user list handed to process_users
MaxMainUsers == 1   \* longest user list a run of main fetches
MaxRoles == 2       \* longest role list handed to process_roles
MaxOrgs == 2        \* longest organization list
MaxFaults == 2      \* calls of one run that end with something else than 200

(* ------------------------ program constants --------------------------- *)
per_page == 20
max_retries == 4
backoff_base == 5

(* ------------------------- Python strings ----------------------------- *)
S_Username == <<"U","s","e","r","n","a","m","e">>
S_sms == <<"s","m","s">>
S_hyphen == <<"-">>
S_UPA == <<"U","s","e","r","n","a","m","e","-","P","a","s","s","w","o","r","d","-","A","u","t","h","e","n","t","i","c","a","t","i","o","n">>
S_UsernameAlt == <<"U","s","e","r","n","a","m","e","-","A","l","t">>
S_google == <<"g","o","o","g","l","e","-","o","a","u","t","h","2">>
S_github == <<"g","i","t","h","u","b">>
S_mailA == <<"a","@","x",".","c","o","m">>
S_mailB == <<"b","@","x",".","c","o","m">>
S_mailC == <<"c","@","x",".","c","o","m">>
S_phoneA == <<"+","1","5","5","5","1","2","3","4","5","6","7">>
S_phoneD == <<"+","4","4","7">>
S_abc == <<"a","b","c">>
S_g1 == <<"g","1">>
S_h1 == <<"h","1">>
S_d1 == <<"d","1">>

\* Python's None where a string is expected (dict.get on a missing key)
NoneStr == <<"None">>

\* sub in s
Contains(sub, s) ==
  \E i \in 1..(Len(s) - Len(sub) + 1) : SubSeq(s, i, i + Len(sub) - 1) = sub

\* s.split("-")[0]
SplitHead(s) ==
  LET hy == {i \in 1..Len(s) : s[i] = "-"}
  IN  IF hy = {} THEN s
      ELSE SubSeq(s, 1, (CHOOSE i \in hy : \A j \in hy : i <= j) - 1)

\* d.get(k)
Get(d, k) == IF k \in DOMAIN d THEN d[k] ELSE NoneStr

\* d.get(k, False)
GetFlag(d, k) == IF k \in DOMAIN d THEN d[k] ELSE FALSE

Min2(a, b) == IF a <= b THEN a ELSE b

RECURSIVE Pow(_, _)
Pow(b, n) == IF n = 0 THEN 1 ELSE b * Pow(b, n - 1)

(* --------------------------- HTTP values ------------------------------ *)
Statuses == {200, 201, 429, 500}

NoneResponse == [kind |-> "None"]
Pending == [kind |-> "pending"]
Response(s, body) == [kind |-> "Response", status_code |-> s, body |-> body]
\* what the request log keeps of a returned value
Outcome(r) == IF r.kind = "Response"
              THEN [kind |-> "Response", status_code |-> r.status_code]
              ELSE r
Ok200 == [kind |-> "Response", status_code |-> 200]

(* --------------------------- source data ------------------------------ *)
\* Auth0 user objects.  User_A has a username/password identity and an sms
\* identity; User_B has two identities of the username/password family and
\* is blocked; User_C has federated identities only; User_D carries an
\* identity without user_id between two well-formed ones.
User_A == [email |-> S_mailA, phone_number |-> S_phoneA, blocked |-> FALSE,
           identities |-> << [connection |-> S_UPA, provider |-> "auth0", user_id |-> S_abc],
                             [connection |-> S_sms, provider |-> "sms", user_id |-> S_abc] >>]
User_B == [email |-> S_mailB, blocked |-> TRUE,
           identities |-> << [connection |-> S_UPA, provider |-> "auth0", user_id |-> S_g1],
                             [connection |-> S_UsernameAlt, provider |-> "auth0", user_id |-> S_h1] >>]
User_C == [email |-> S_mailC,
           identities |-> << [connection |-> S_google, provider |-> "google-oauth2", user_id |-> S_g1],
                             [connection |-> S_github, provider |-> "github", user_id |-> S_h1] >>]
User_D == [phone_number |-> S_phoneD,
           identities |-> << [connection |-> S_github, provider |-> "github", user_id |-> S_d1],
                             [connection |-> S_github, provider |-> "github"],
                             [connection |-> S_sms, provider |-> "sms", user_id |-> S_d1] >>]
UserPool == {User_A, User_B, User_C, User_D}

Role_Admin == [id |-> 1, name |-> "Admin", description |-> "administrators"]
Role_Viewer == [id |-> 2, name |-> "Viewer", description |-> "read only"]
RolePool == {Role_Admin, Role_Viewer}
Perm_Read == [permission_name |-> "read:x", description |-> "read x"]
Perm_Write == [permission_name |-> "write:x", description |-> "write x"]
RolePermissions == (1 :> <<Perm_Read, Perm_Write>>) @@ (2 :> <<>>)
RoleUsers == (1 :> << [email |-> S_mailA] >>) @@
             (2 :> << [email |-> S_mailB], [email |-> S_mailC] >>)

Org_Acme == [id |-> 1, display_name |-> "Acme"]
Org_Beta == [id |-> 2, display_name |-> "Beta"]
OrgPool == {Org_Acme, Org_Beta}
OrgMembers == (1 :> <<>>) @@ (2 :> << [email |-> S_mailA], [email |-> S_mailC] >>)

\* sequences without repetition of at most n elements of S
SeqsUpTo(S, n) ==
  UNION { {q \in [1..k -> S] : \A i, j \in 1..k : i # j => q[i] # q[j]} : k \in 0..n }

\* the source tenant as its REST API exposes it
SourceOf(users, roles, orgs) ==
  [fetch_auth0_users |-> users,
   fetch_auth0_roles |-> roles,
   get_permissions_for_role |-> RolePermissions,
   get_users_in_role |-> RoleUsers,
   fetch_auth0_organizations |-> orgs,
   fetch_auth0_organization_members |-> OrgMembers]

\* a listing of n opaque JSON objects
ItemList(n) == [i \in 1..n |-> [id |-> i]]

\* a tenant all of whose listings hold the same n objects
UniformSource(n) ==
  [fetch_auth0_users |-> ItemList(n),
   fetch_auth0_roles |-> ItemList(n),
   get_permissions_for_role |-> (1 :> ItemList(n)),
   get_users_in_role |-> (1 :> ItemList(n)),
   fetch_auth0_organizations |-> ItemList(n),
   fetch_auth0_organization_members |-> (1 :> ItemList(n))]

ReaderFns == {"fetch_auth0_users", "fetch_auth0_roles", "get_users_in_role",
              "get_permissions_for_role", "fetch_auth0_organizations",
              "fetch_auth0_organization_members"}
NestedReaders == {"get_users_in_role", "get_permissions_for_role",
                  "fetch_auth0_organization_members"}
ProcessFns == {"process_users", "process_roles", "process_auth0_organizations"}

\* the domain a function belongs to (main.py:18, 22, 26)
DomainOf(fn) ==
  CASE fn \in {"fetch_auth0_users", "process_users", "create_or_update_user",
               "update_user_status"} -> "Users"
    [] fn \in {"fetch_auth0_roles", "process_roles", "get_permissions_for_role",
               "get_users_in_role", "create_descope_permission",
               "create_descope_role", "add_user_to_descope_role"} -> "Roles"
    [] OTHER -> "Organizations"

(* ------------------------------ state --------------------------------- *)
VARIABLES
  entry,        \* the function the run starts in
  dry_run,      \* --dry-run
  source,       \* the Auth0 tenant's data
  pc,           \* position of the caller of the call layer
  cl,           \* frame of api_request_with_retry
  rd,           \* frame of the running paginated reader
  log,          \* every call handed to the call layer, with what it returned
  exc,          \* the exception that ended the run, "none" otherwise
  auth0_users,  \* list handed to process_users
  usr,          \* frame of process_users / create_descope_user
  rol,          \* frame of process_roles
  org,          \* frame of process_auth0_organizations
  retried,      \* some request of the run was answered 429 or timed out
  run,          \* 1 in the first run of the program, 2 when it was run again
  prev          \* the calls of the first run, once the program was run again

inputs == <<entry, dry_run, source, retried, run, prev>>
vars == <<entry, dry_run, source, pc, cl, rd, log, exc, auth0_users, usr, rol, org,
          retried, run, prev>>

IdleCall == [state |-> "idle", retries |-> 0, attempts |-> 0, waits |-> <<>>,
             last |-> "none", rate_limits |-> 0, request |-> [fn |-> "none"],
             response |-> Pending]
NoUsr == [i |-> 0, k |-> 0, loginId |-> NoneStr, status |-> "none"]
NoRol == [auth0_roles |-> <<>>, i |-> 0, permissions |-> <<>>,
          permissionNames |-> <<>>, p |-> 0, users |-> <<>>, m |-> 0]
NoOrg == [auth0_organizations |-> <<>>, i |-> 0, org_members |-> <<>>, m |-> 0]

(* --------------------------- source API ------------------------------- *)
\* the listing a reader drains
Listing(fn, arg) == IF fn \in NestedReaders THEN source[fn][arg] ELSE source[fn]

\* page `page` of a listing served `n` objects per page
PageOf(list, page, n) == SubSeq(list, page * n + 1, Min2(Len(list), (page + 1) * n))

\* the body Auth0 answers a 200 with
ServerBody(req) ==
  IF req.method = "get"
  THEN PageOf(Listing(req.fn, req.data.arg), req.data.page, req.data.per_page)
  ELSE <<>>

(* ----------------------- api_request_with_retry ----------------------- *)
\* calls of this run that returned something else than a 200 response
FaultsUsed == Cardinality({i \in DOMAIN log : log[i].res \notin {Ok200, Pending}})
CanFail == FaultsUsed < MaxFaults

\* entering api_request_with_retry: retries = 0
NewCall(req) == [state |-> "running", retries |-> 0, attempts |-> 0,
                 waits |-> <<>>, last |-> "none", rate_limits |-> 0,
                 request |-> req, response |-> Pending]

StartCall(req, ctx) ==
  /\ cl' = NewCall(req)
  /\ log' = Append(log, [request |-> req, ctx |-> ctx, res |-> Pending])

\* WaitTime with a linear backoff, 5 * retries
WaitTime_Linear(retries) == backoff_base * retries

\* wait_time = 5 ** retries
WaitTime(retries) == Pow(backoff_base, retries)

\* `return response` / `return None`
Returned(c, resp) == [c EXCEPT !.state = "returned", !.response = resp]

\* retries += 1; time.sleep(wait_time); then the while condition
AfterRetry(c, why) ==
  LET r == c.retries + 1
      c1 == [c EXCEPT !.retries = r, !.attempts = @ + 1, !.last = why,
                      !.rate_limits = IF why = "rate_limit" THEN @ + 1 ELSE @,
                      !.waits = Append(@, WaitTime(r))]
  IN  IF r < max_retries THEN c1 ELSE Returned(c1, NoneResponse)

\* OnResponse without the test for 429: every response is returned
OnResponse_ReturnAny(c, s, body) ==
  Returned([c EXCEPT !.attempts = @ + 1, !.last = "response"], Response(s, body))

\* `if response.status_code != 429: return response`, else the retry
OnResponse(c, s, body) ==
  IF s # 429
  THEN Returned([c EXCEPT !.attempts = @ + 1, !.last = "response"], Response(s, body))
  ELSE AfterRetry(c, "rate_limit")

\* OnRequestException handled like a read timeout: wait and try again
OnRequestException_Retry(c) == AfterRetry(c, "request_exception")

\* `except requests.exceptions.RequestException: break`, then `return None`
OnRequestException(c) ==
  Returned([c EXCEPT !.attempts = @ + 1, !.last = "request_exception"], NoneResponse)

\* requests.request in the second run: the call gets the answer the call at
\* the same place of the first run got, and is tried again only where the
\* first run's call gave up
Replays(c) ==
  (run = 2 /\ Len(log) <= Len(prev)) =>
     IF c.state = "returned"
     THEN Outcome(c.response) = prev[Len(log)].res
     ELSE prev[Len(log)].res = NoneResponse

SetCall(c) ==
  /\ Replays(c)
  /\ cl' = c
  /\ log' = IF c.state = "returned"
            THEN [log EXCEPT ![Len(log)].res = Outcome(c.response)]
            ELSE log
  /\ retried' = (retried \/ c.retries > 0)
  /\ UNCHANGED <<entry, dry_run, source, pc, rd, exc, auth0_users, usr, rol, org,
                 run, prev>>

\* the request is answered with a status other than 429: returned as it is
AttemptResponse ==
  /\ cl.state = "running"
  /\ \E s \in Statuses \ {429} :
       /\ s = 200 \/ CanFail
       /\ SetCall(OnResponse(cl, s, IF s = 200 THEN ServerBody(cl.request) ELSE <<>>))

\* the request is answered 429
AttemptRateLimited ==
  /\ cl.state = "running"
  /\ cl.retries + 1 < max_retries \/ CanFail
  /\ SetCall(OnResponse(cl, 429, <<>>))

\* requests.exceptions.ReadTimeout
AttemptReadTimeout ==
  /\ cl.state = "running"
  /\ cl.retries + 1 < max_retries \/ CanFail
  /\ SetCall(AfterRetry(cl, "read_timeout"))

\* any other requests.exceptions.RequestException: break
AttemptRequestException ==
  /\ cl.state = "running"
  /\ CanFail
  /\ SetCall(OnRequestException(cl))

(* ------------------------- paginated readers -------------------------- *)
ReaderRequest(fn, arg, page) ==
  [fn |-> fn, method |-> "get", url |-> fn,
   data |-> [arg |-> arg, page |-> page, per_page |-> per_page]]

ReadCtx(fn, i) == [domain |-> DomainOf(fn), i |-> i, k |-> 0]

\* page = 0; all = []; first pass of `while True`
CallReader(fn, arg, i) ==
  /\ rd' = [fn |-> fn, arg |-> arg, page |-> 0, all |-> <<>>, i |-> i]
  /\ StartCall(ReaderRequest(fn, arg, 0), ReadCtx(fn, i))
  /\ pc' = "read"

\* ReaderStep with `all = page` in place of all.extend(page)
ReaderStep_Overwrite(r, all) ==
  IF r.kind = "None" THEN [do |-> "raise", all |-> all]
  ELSE IF r.status_code # 200 THEN [do |-> "return", all |-> all]
  ELSE IF r.body = <<>> THEN [do |-> "return", all |-> all]
  ELSE [do |-> "next", all |-> r.body]

\* ReaderStep with `return []` on a status other than 200
ReaderStep_DropOnError(r, all) ==
  IF r.kind = "None" THEN [do |-> "raise", all |-> all]
  ELSE IF r.status_code # 200 THEN [do |-> "return", all |-> <<>>]
  ELSE IF r.body = <<>> THEN [do |-> "return", all |-> all]
  ELSE [do |-> "next", all |-> all \o r.body]

\* what one pass of the reader's loop does with the value the call layer
\* returned: response.status_code on None raises AttributeError
ReaderStep(r, all) ==
  IF r.kind = "None" THEN [do |-> "raise", all |-> all]
  ELSE IF r.status_code # 200 THEN [do |-> "return", all |-> all]
  ELSE IF r.body = <<>> THEN [do |-> "return", all |-> all]
  ELSE [do |-> "next", all |-> all \o r.body]

\* where a reader returns to
AfterReader(fn) ==
  IF entry \in ReaderFns THEN "done"
  ELSE CASE fn = "fetch_auth0_users" -> "process_users"
         [] fn = "get_permissions_for_role" -> "permissions_read"
         [] fn = "get_users_in_role" -> "role_users_read"
         [] fn = "fetch_auth0_organization_members" -> "org_members_read"
         [] OTHER -> "done"

ReaderPage ==
  /\ pc = "read"
  /\ cl.state = "returned"
  /\ LET st == ReaderStep(cl.response, rd.all)
     IN  CASE st.do = "raise" ->
                /\ pc' = "raised"
                /\ exc' = "AttributeError"
                /\ cl' = IdleCall
                /\ UNCHANGED <<rd, log>>
           [] st.do = "return" ->
                /\ pc' = AfterReader(rd.fn)
                /\ cl' = IdleCall
                /\ rd' = [rd EXCEPT !.all = st.all]
                /\ UNCHANGED <<log, exc>>
           [] OTHER ->
                /\ rd' = [rd EXCEPT !.all = st.all, !.page = @ + 1]
                /\ StartCall(ReaderRequest(rd.fn, rd.arg, rd.page + 1), ReadCtx(rd.fn, rd.i))
                /\ UNCHANGED <<pc, exc>>
  /\ UNCHANGED <<inputs, auth0_users, usr, rol, org>>

\* a reader called on its own
CallReaderEntry ==
  /\ pc = "start"
  /\ entry \in ReaderFns
  /\ CallReader(entry, IF entry \in NestedReaders THEN 1 ELSE 0, 0)
  /\ UNCHANGED <<inputs, exc, auth0_users, usr, rol, org>>

(* ------------------------ create_descope_user ------------------------- *)
\* identity["connection"] / identity["user_id"] on a missing key: KeyError
LoginIdRaises(user, identity) ==
  \/ "connection" \notin DOMAIN identity
  \/ /\ ~Contains(S_Username, identity.connection)
     /\ ~Contains(S_sms, identity.connection)
     /\ "user_id" \notin DOMAIN identity

\* LoginId with the hyphen test moved to the front of the chain
LoginId_HyphenFirst(user, identity) ==
  IF Contains(S_hyphen, identity.connection)
  THEN SplitHead(identity.connection) \o S_hyphen \o identity.user_id
  ELSE IF Contains(S_Username, identity.connection) THEN Get(user, "email")
  ELSE IF Contains(S_sms, identity.connection) THEN Get(user, "phone_number")
  ELSE identity.connection \o S_hyphen \o identity.user_id

\* the if / elif chain that picks the loginId
LoginId(user, identity) ==
  IF Contains(S_Username, identity.connection) THEN Get(user, "email")
  ELSE IF Contains(S_sms, identity.connection) THEN Get(user, "phone_number")
  ELSE IF Contains(S_hyphen, identity.connection)
       THEN SplitHead(identity.connection) \o S_hyphen \o identity.user_id
  ELSE identity.connection \o S_hyphen \o identity.user_id

\* `if user.get("email")`: neither None nor ""
Truthy(x) == x # NoneStr /\ x # <<>>

PayloadData(user, identity, loginId) ==
  [loginId |-> loginId,
   displayName |-> Get(user, "name"),
   invite |-> FALSE,
   test |-> FALSE,
   picture |-> Get(user, "picture"),
   customAttributes |-> [connection |-> Get(identity, "connection"),
                         freshlyMigrated |-> TRUE]]
  @@ (IF Truthy(Get(user, "email"))
      THEN [email |-> user.email, verifiedEmail |-> GetFlag(user, "email_verified")]
      ELSE <<>>)
  @@ (IF "provider" \in DOMAIN identity /\ identity.provider = "sms"
      THEN [phone |-> Get(user, "phone_number"),
            verifiedPhone |-> GetFlag(user, "phone_verified")]
      ELSE <<>>)

\* StatusOf that takes no account of the blocked flag
StatusOf_Enabled(user) == "enabled"

\* status = "disabled" if user.get("blocked", False) else "enabled"
StatusOf(user) == IF GetFlag(user, "blocked") THEN "disabled" ELSE "enabled"

Identities(user) == IF "identities" \in DOMAIN user THEN user.identities ELSE <<>>

PostRequest(fn, url, data) == [fn |-> fn, method |-> "post", url |-> url, data |-> data]

UserCtx == [domain |-> "Users", i |-> usr.i, k |-> usr.k]

\* WriterSuccess that reports every response as a success
WriterSuccess_Always(r) == TRUE

\* `if response.status_code != 200: return False`
WriterSuccess(r) == r.status_code = 200

\* where process_users returns to: main.py:20 or the caller
AfterProcessUsers == IF entry = "main" THEN "main_unpack_users" ELSE "done"

\* process_users that goes on after the users the first run wrote
process_users_Resume ==
  /\ \/ entry = "main" /\ pc = "process_users"
     \/ entry = "process_users" /\ pc = "start"
  /\ auth0_users' = IF entry = "main" THEN rd.all ELSE source.fetch_auth0_users
  /\ IF dry_run
     THEN pc' = AfterProcessUsers /\ usr' = usr
     ELSE /\ pc' = "users_loop"
          /\ usr' = [NoUsr EXCEPT !.i = 1 + Cardinality({prev[n].ctx.i :
                         n \in {m \in DOMAIN prev : prev[m].ctx.domain = "Users"
                                                    /\ prev[m].ctx.i > 0}})]
  /\ UNCHANGED <<inputs, cl, rd, log, exc, rol, org>>

\* process_users(api_response_users, dry_run)
process_users ==
  /\ \/ entry = "main" /\ pc = "process_users"
     \/ entry = "process_users" /\ pc = "start"
  /\ auth0_users' = IF entry = "main" THEN rd.all ELSE source.fetch_auth0_users
  /\ IF dry_run
     THEN pc' = AfterProcessUsers /\ usr' = usr
     ELSE pc' = "users_loop" /\ usr' = [NoUsr EXCEPT !.i = 1]
  /\ UNCHANGED <<inputs, cl, rd, log, exc, rol, org>>

\* `for user in api_response_users:` create_descope_user(user)
UsersLoop ==
  /\ pc = "users_loop"
  /\ IF usr.i > Len(auth0_users)
     THEN pc' = AfterProcessUsers /\ usr' = usr
     ELSE pc' = "identity_loop" /\ usr' = [usr EXCEPT !.k = 1]
  /\ UNCHANGED <<inputs, cl, rd, log, exc, auth0_users, rol, org>>

\* create_descope_user returns (loop over, or the except clause ran)
NextUser == [NoUsr EXCEPT !.i = usr.i + 1]

\* `for identity in user.get("identities", [])`: up to create_or_update_user
IdentityLoop ==
  /\ pc = "identity_loop"
  /\ LET user == auth0_users[usr.i]
         ids == Identities(user)
     IN  IF usr.k > Len(ids) \/ LoginIdRaises(user, ids[usr.k])
         THEN /\ pc' = "users_loop"
              /\ usr' = NextUser
              /\ UNCHANGED <<cl, log>>
         ELSE LET loginId == LoginId(user, ids[usr.k])
              IN  /\ usr' = [usr EXCEPT !.loginId = loginId, !.status = StatusOf(user)]
                  /\ StartCall(PostRequest("create_or_update_user", "user/create",
                                           PayloadData(user, ids[usr.k], loginId)),
                               UserCtx)
                  /\ pc' = "upsert_wait"
  /\ UNCHANGED <<inputs, rd, exc, auth0_users, rol, org>>

\* UpsertReturned where a call that returned None is taken for a failed
\* upsert: the next identity of the user is processed
UpsertReturned_NoneIsFailure ==
  /\ pc = "upsert_wait"
  /\ cl.state = "returned"
  /\ IF cl.response.kind # "None" /\ WriterSuccess(cl.response)
     THEN /\ StartCall(PostRequest("update_user_status", "user/update/status",
                                   [loginId |-> usr.loginId, status |-> usr.status]),
                       UserCtx)
          /\ pc' = "status_wait"
          /\ usr' = usr
     ELSE /\ pc' = "identity_loop"
          /\ usr' = [usr EXCEPT !.k = @ + 1]
          /\ cl' = IdleCall
          /\ log' = log
  /\ UNCHANGED <<inputs, rd, exc, auth0_users, rol, org>>

\* UpsertReturned without the try block of create_descope_user: the
\* AttributeError on None leaves process_users
UpsertReturned_Uncaught ==
  /\ pc = "upsert_wait"
  /\ cl.state = "returned"
  /\ IF cl.response.kind = "None"
     THEN /\ pc' = "raised"
          /\ exc' = "AttributeError"
          /\ usr' = usr
          /\ cl' = IdleCall
          /\ log' = log
     ELSE IF WriterSuccess(cl.response)
     THEN /\ StartCall(PostRequest("update_user_status", "user/update/status",
                                   [loginId |-> usr.loginId, status |-> usr.status]),
                       UserCtx)
          /\ pc' = "status_wait"
          /\ usr' = usr
          /\ exc' = exc
     ELSE /\ pc' = "identity_loop"
          /\ usr' = [usr EXCEPT !.k = @ + 1]
          /\ cl' = IdleCall
          /\ log' = log
          /\ exc' = exc
  /\ UNCHANGED <<inputs, rd, auth0_users, rol, org>>

\* create_or_update_user looks at the response; update_user_status follows
UpsertReturned ==
  /\ pc = "upsert_wait"
  /\ cl.state = "returned"
  /\ IF cl.response.kind = "None"
     THEN /\ pc' = "users_loop"
          /\ usr' = NextUser
          /\ cl' = IdleCall
          /\ log' = log
     ELSE IF WriterSuccess(cl.response)
     THEN /\ StartCall(PostRequest("update_user_status", "user/update/status",
                                   [loginId |-> usr.loginId, status |-> usr.status]),
                       UserCtx)
          /\ pc' = "status_wait"
          /\ usr' = usr
     ELSE /\ pc' = "identity_loop"
          /\ usr' = [usr EXCEPT !.k = @ + 1]
          /\ cl' = IdleCall
          /\ log' = log
  /\ UNCHANGED <<inputs, rd, exc, auth0_users, rol, org>>

\* update_user_status looks at the response
StatusReturned ==
  /\ pc = "status_wait"
  /\ cl.state = "returned"
  /\ IF cl.response.kind = "None"
     THEN pc' = "users_loop" /\ usr' = NextUser
     ELSE pc' = "identity_loop" /\ usr' = [usr EXCEPT !.k = @ + 1]
  /\ cl' = IdleCall
  /\ UNCHANGED <<inputs, rd, log, exc, auth0_users, rol, org>>

(* ------------------------------- main --------------------------------- *)
\* auth0_users = fetch_auth0_users()
MainFetchUsers ==
  /\ entry = "main"
  /\ pc = "start"
  /\ CallReader("fetch_auth0_users", 0, 0)
  /\ UNCHANGED <<inputs, exc, auth0_users, usr, rol, org>>

\* failed_users, ... = process_users(...): process_users returned None
MainUnpackUsers ==
  /\ pc = "main_unpack_users"
  /\ pc' = "raised"
  /\ exc' = "TypeError"
  /\ UNCHANGED <<inputs, cl, rd, log, auth0_users, usr, rol, org>>

(* --------------------------- process_roles ---------------------------- *)
\* `response.status_code` where response is None: AttributeError, and no
\* try block around any of the role, tenant or membership writers
Dereferences(r) == r.kind = "None"

Raise(e) ==
  /\ pc' = "raised"
  /\ exc' = e
  /\ cl' = IdleCall
  /\ log' = log

RoleCtx == [domain |-> "Roles", i |-> rol.i, k |-> 0]

\* process_roles(auth0_roles, dry_run)
process_roles ==
  /\ entry = "process_roles"
  /\ pc = "start"
  /\ rol' = [NoRol EXCEPT !.auth0_roles = source.fetch_auth0_roles, !.i = 1]
  /\ pc' = "roles_loop"
  /\ UNCHANGED <<inputs, cl, rd, log, exc, auth0_users, usr, org>>

\* `for role in auth0_roles:` permissions = get_permissions_for_role(role["id"])
RolesLoop ==
  /\ pc = "roles_loop"
  /\ IF rol.i > Len(rol.auth0_roles)
     THEN pc' = "done" /\ UNCHANGED <<cl, rd, log>>
     ELSE CallReader("get_permissions_for_role", rol.auth0_roles[rol.i].id, rol.i)
  /\ UNCHANGED <<inputs, exc, auth0_users, usr, rol, org>>

NextRole == [NoRol EXCEPT !.auth0_roles = rol.auth0_roles, !.i = rol.i + 1]

\* PermissionsRead without the `if dry_run:` test
PermissionsRead_Live ==
  /\ pc = "permissions_read"
  /\ pc' = "permissions_loop"
  /\ rol' = [rol EXCEPT !.permissions = rd.all, !.permissionNames = <<>>, !.p = 1]
  /\ UNCHANGED <<inputs, cl, rd, log, exc, auth0_users, usr, org>>

\* the permissions are read: the dry run logs their number, the live run
\* enters create_descope_role_and_permissions
PermissionsRead ==
  /\ pc = "permissions_read"
  /\ IF dry_run
     THEN pc' = "roles_loop" /\ rol' = NextRole
     ELSE /\ pc' = "permissions_loop"
          /\ rol' = [rol EXCEPT !.permissions = rd.all, !.permissionNames = <<>>, !.p = 1]
  /\ UNCHANGED <<inputs, cl, rd, log, exc, auth0_users, usr, org>>

\* `for permission in permissions:` post permission/create; then role/create
PermissionsLoop ==
  /\ pc = "permissions_loop"
  /\ IF rol.p > Len(rol.permissions)
     THEN LET role == rol.auth0_roles[rol.i]
          IN  /\ StartCall(PostRequest("create_descope_role", "role/create",
                             [name |-> role.name, description |-> role.description,
                              permissionNames |-> rol.permissionNames]), RoleCtx)
              /\ pc' = "role_wait"
              /\ rol' = rol
     ELSE LET permission == rol.permissions[rol.p]
          IN  /\ rol' = [rol EXCEPT !.permissionNames = Append(@, permission.permission_name)]
              /\ StartCall(PostRequest("create_descope_permission", "permission/create",
                             [name |-> permission.permission_name,
                              description |-> permission.description]), RoleCtx)
              /\ pc' = "permission_wait"
  /\ UNCHANGED <<inputs, rd, exc, auth0_users, usr, org>>

\* PermissionReturned that keeps a permission's name for the role only when
\* the permission write was answered 200
PermissionReturned_DropFailed ==
  /\ pc = "permission_wait"
  /\ cl.state = "returned"
  /\ IF Dereferences(cl.response)
     THEN Raise("AttributeError") /\ rol' = rol
     ELSE /\ pc' = "permissions_loop"
          /\ rol' = [rol EXCEPT !.p = @ + 1,
                                !.permissionNames =
                                   IF cl.response.status_code = 200 THEN @
                                   ELSE SubSeq(@, 1, Len(@) - 1)]
          /\ cl' = IdleCall
          /\ UNCHANGED <<log, exc>>
  /\ UNCHANGED <<inputs, rd, auth0_users, usr, org>>

\* the permission write returned: logged either way, next permission
PermissionReturned ==
  /\ pc = "permission_wait"
  /\ cl.state = "returned"
  /\ IF Dereferences(cl.response)
     THEN Raise("AttributeError") /\ rol' = rol
     ELSE /\ pc' = "permissions_loop"
          /\ rol' = [rol EXCEPT !.p = @ + 1]
          /\ cl' = IdleCall
          /\ UNCHANGED <<log, exc>>
  /\ UNCHANGED <<inputs, rd, auth0_users, usr, org>>

\* the role write returned; users = get_users_in_role(role["id"])
RoleReturned ==
  /\ pc = "role_wait"
  /\ cl.state = "returned"
  /\ IF Dereferences(cl.response)
     THEN Raise("AttributeError") /\ rd' = rd
     ELSE /\ CallReader("get_users_in_role", rol.auth0_roles[rol.i].id, rol.i)
          /\ exc' = exc
  /\ UNCHANGED <<inputs, auth0_users, usr, rol, org>>

RoleUsersRead ==
  /\ pc = "role_users_read"
  /\ rol' = [rol EXCEPT !.users = rd.all, !.m = 1]
  /\ pc' = "role_users_loop"
  /\ UNCHANGED <<inputs, cl, rd, log, exc, auth0_users, usr, org>>

\* `for user in users:` add_user_to_descope_role(user["email"], role["name"])
RoleUsersLoop ==
  /\ pc = "role_users_loop"
  /\ IF rol.m > Len(rol.users)
     THEN pc' = "roles_loop" /\ rol' = NextRole /\ UNCHANGED <<cl, log, exc>>
     ELSE IF "email" \notin DOMAIN rol.users[rol.m]
     THEN Raise("KeyError") /\ rol' = rol
     ELSE /\ StartCall(PostRequest("add_user_to_descope_role", "user/create",
                         [loginId |-> rol.users[rol.m].email,
                          roleNames |-> <<rol.auth0_roles[rol.i].name>>]), RoleCtx)
          /\ pc' = "role_user_wait"
          /\ UNCHANGED <<rol, exc>>
  /\ UNCHANGED <<inputs, rd, auth0_users, usr, org>>

RoleUserReturned ==
  /\ pc = "role_user_wait"
  /\ cl.state = "returned"
  /\ IF Dereferences(cl.response)
     THEN Raise("AttributeError") /\ rol' = rol
     ELSE /\ pc' = "role_users_loop"
          /\ rol' = [rol EXCEPT !.m = @ + 1]
          /\ cl' = IdleCall
          /\ UNCHANGED <<log, exc>>
  /\ UNCHANGED <<inputs, rd, auth0_users, usr, org>>

(* --------------------- process_auth0_organizations -------------------- *)
OrgCtx == [domain |-> "Organizations", i |-> org.i, k |-> 0]

process_auth0_organizations ==
  /\ entry = "process_auth0_organizations"
  /\ pc = "start"
  /\ org' = [NoOrg EXCEPT !.auth0_organizations = source.fetch_auth0_organizations, !.i = 1]
  /\ pc' = "organizations_loop"
  /\ UNCHANGED <<inputs, cl, rd, log, exc, auth0_users, usr, rol>>

\* OrganizationsLoop without the call of create_descope_tenant
OrganizationsLoop_NoTenant ==
  /\ pc = "organizations_loop"
  /\ IF org.i > Len(org.auth0_organizations)
     THEN pc' = "done" /\ UNCHANGED <<cl, rd, log>>
     ELSE CallReader("fetch_auth0_organization_members",
                     org.auth0_organizations[org.i].id, org.i)
  /\ UNCHANGED <<inputs, exc, auth0_users, usr, rol, org>>

\* `for organization in auth0_organizations:` the dry run reads the members,
\* the live run first posts tenant/create
OrganizationsLoop ==
  /\ pc = "organizations_loop"
  /\ IF org.i > Len(org.auth0_organizations)
     THEN pc' = "done" /\ UNCHANGED <<cl, rd, log>>
     ELSE LET organization == org.auth0_organizations[org.i]
          IN  IF dry_run
              THEN CallReader("fetch_auth0_organization_members", organization.id, org.i)
              ELSE /\ StartCall(PostRequest("create_descope_tenant", "tenant/create",
                                  [name |-> organization.display_name,
                                   id |-> organization.id]), OrgCtx)
                   /\ pc' = "tenant_wait"
                   /\ rd' = rd
  /\ UNCHANGED <<inputs, exc, auth0_users, usr, rol, org>>

TenantReturned ==
  /\ pc = "tenant_wait"
  /\ cl.state = "returned"
  /\ IF Dereferences(cl.response)
     THEN Raise("AttributeError") /\ rd' = rd
     ELSE /\ CallReader("fetch_auth0_organization_members",
                        org.auth0_organizations[org.i].id, org.i)
          /\ exc' = exc
  /\ UNCHANGED <<inputs, auth0_users, usr, rol, org>>

NextOrg == [NoOrg EXCEPT !.auth0_organizations = org.auth0_organizations, !.i = org.i + 1]

OrgMembersRead ==
  /\ pc = "org_members_read"
  /\ IF dry_run
     THEN pc' = "organizations_loop" /\ org' = NextOrg
     ELSE pc' = "org_members_loop" /\ org' = [org EXCEPT !.org_members = rd.all, !.m = 1]
  /\ UNCHANGED <<inputs, cl, rd, log, exc, auth0_users, usr, rol>>

\* `for user in org_members:` add_descope_user_to_tenant(organization["id"], user["email"])
OrgMembersLoop ==
  /\ pc = "org_members_loop"
  /\ IF org.m > Len(org.org_members)
     THEN pc' = "organizations_loop" /\ org' = NextOrg /\ UNCHANGED <<cl, log, exc>>
     ELSE IF "email" \notin DOMAIN org.org_members[org.m]
     THEN Raise("KeyError") /\ org' = org
     ELSE /\ StartCall(PostRequest("add_descope_user_to_tenant", "user/update/tenant/add",
                         [loginId |-> org.org_members[org.m].email,
                          tenantId |-> org.auth0_organizations[org.i].id]), OrgCtx)
          /\ pc' = "org_member_wait"
          /\ UNCHANGED <<org, exc>>
  /\ UNCHANGED <<inputs, rd, auth0_users, usr, rol>>

OrgMemberReturned ==
  /\ pc = "org_member_wait"
  /\ cl.state = "returned"
  /\ IF Dereferences(cl.response)
     THEN Raise("AttributeError") /\ org' = org
     ELSE /\ pc' = "org_members_loop"
          /\ org' = [org EXCEPT !.m = @ + 1]
          /\ cl' = IdleCall
          /\ UNCHANGED <<log, exc>>
  /\ UNCHANGED <<inputs, rd, auth0_users, usr, rol>>

(* --------------------------- specifications --------------------------- *)
InitFrames ==
  /\ pc = "start"
  /\ cl = IdleCall
  /\ rd = [fn |-> "none", arg |-> 0, page |-> 0, all |-> <<>>, i |-> 0]
  /\ log = <<>>
  /\ exc = "none"
  /\ auth0_users = <<>>
  /\ usr = NoUsr
  /\ rol = NoRol
  /\ org = NoOrg
  /\ retried = FALSE
  /\ run = 1
  /\ prev = <<>>

FullUsers == <<User_A, User_B, User_C, User_D>>
FullRoles == <<Role_Admin, Role_Viewer>>
FullOrgs == <<Org_Acme, Org_Beta>>

\* a run of main or of one process function over a tenant of the pools
Init ==
  /\ entry \in {"main"} \cup ProcessFns
  /\ dry_run \in BOOLEAN
  /\ source \in
       IF entry = "main"
       THEN {SourceOf(u, FullRoles, FullOrgs) : u \in SeqsUpTo(UserPool, MaxMainUsers)}
       ELSE IF entry = "process_users"
       THEN {SourceOf(u, FullRoles, FullOrgs) : u \in SeqsUpTo(UserPool, MaxUsers)}
       ELSE IF entry = "process_roles"
       THEN {SourceOf(FullUsers, r, FullOrgs) : r \in SeqsUpTo(RolePool, MaxRoles)}
       ELSE {SourceOf(FullUsers, FullRoles, o) : o \in SeqsUpTo(OrgPool, MaxOrgs)}
  /\ InitFrames

CallLayer ==
  \/ AttemptResponse
  \/ AttemptRateLimited
  \/ AttemptReadTimeout
  \/ AttemptRequestException

Next ==
  \/ CallLayer
  \/ ReaderPage
  \/ MainFetchUsers
  \/ process_users
  \/ UsersLoop
  \/ IdentityLoop
  \/ UpsertReturned
  \/ StatusReturned
  \/ MainUnpackUsers
  \/ process_roles
  \/ RolesLoop
  \/ PermissionsRead
  \/ PermissionsLoop
  \/ PermissionReturned
  \/ RoleReturned
  \/ RoleUsersRead
  \/ RoleUsersLoop
  \/ RoleUserReturned
  \/ process_auth0_organizations
  \/ OrganizationsLoop
  \/ TenantReturned
  \/ OrgMembersRead
  \/ OrgMembersLoop
  \/ OrgMemberReturned

Spec == Init /\ [][Next]_vars

\* one paginated reader draining a listing of up to MaxItems objects
InitReader ==
  /\ entry \in ReaderFns
  /\ dry_run = FALSE
  /\ source \in {UniformSource(n) : n \in 0..MaxItems}
  /\ InitFrames

NextReader ==
  \/ CallReaderEntry
  \/ CallLayer
  \/ ReaderPage

SpecReader == InitReader /\ [][NextReader]_vars

\* `python main.py` once more after the run ended: a new process, nothing
\* is carried over from the first run; the same tenant, the same arguments
Rerun ==
  /\ run = 1
  /\ pc \in {"done", "raised"}
  /\ run' = 2
  /\ prev' = log
  /\ pc' = "start"
  /\ cl' = IdleCall
  /\ rd' = [fn |-> "none", arg |-> 0, page |-> 0, all |-> <<>>, i |-> 0]
  /\ log' = <<>>
  /\ exc' = "none"
  /\ auth0_users' = <<>>
  /\ usr' = NoUsr
  /\ rol' = NoRol
  /\ org' = NoOrg
  /\ retried' = FALSE
  /\ UNCHANGED <<entry, dry_run, source>>

\* a live run and the same run once more
InitRerun == Init /\ ~dry_run

NextRerun == Next \/ Rerun

SpecRerun == InitRerun /\ [][NextRerun]_vars

(* ------------------------------ claims -------------------------------- *)
Terminal == pc \in {"done", "raised"}
Fn(i) == log[i].request.fn
IsUpsert(i) == Fn(i) = "create_or_update_user"
DomainsSeen == {log[i].ctx.domain : i \in DOMAIN log}
AllDomains == {"Users", "Roles", "Organizations"}
DomainRank(d) == CASE d = "Users" -> 1 [] d = "Roles" -> 2 [] OTHER -> 3
HasRead(fn, arg) ==
  \E i \in DOMAIN log : Fn(i) = fn /\ log[i].request.data.arg = arg
NonSuccess(res) == res.kind = "Response" /\ res.status_code \notin 200..299
CleanLog == ~retried /\ \A i \in DOMAIN log : log[i].res = Ok200

\* C1: every run of main, live or dry, processes the three domains Users,
\* Roles and Organizations and reaches its end without an unhandled
\* exception.
C1_MainCompletesAllDomains ==
  entry = "main" =>
    /\ pc # "raised"
    /\ pc = "done" => DomainsSeen = AllDomains

\* C2: in dry-run mode no write request (POST) is ever handed to the call
\* layer by process_users, process_roles or process_auth0_organizations.
C2_DryRunIssuesNoWrite ==
  dry_run => \A i \in DOMAIN log : log[i].request.method # "post"

C2_Witness ==
  /\ dry_run
  /\ entry = "process_roles"
  /\ pc = "done"
  /\ HasRead("get_permissions_for_role", 1)
  /\ HasRead("get_permissions_for_role", 2)

\* C3: a finished dry run has read, for every role, the role's permissions
\* and the role's members, and for every organization its members.
C3_DryRunReadsLikeLive ==
  (dry_run /\ pc = "done") =>
    /\ entry = "process_roles" =>
         \A x \in DOMAIN source.fetch_auth0_roles :
            /\ HasRead("get_permissions_for_role", source.fetch_auth0_roles[x].id)
            /\ HasRead("get_users_in_role", source.fetch_auth0_roles[x].id)
    /\ entry = "process_auth0_organizations" =>
         \A x \in DOMAIN source.fetch_auth0_organizations :
            HasRead("fetch_auth0_organization_members",
                    source.fetch_auth0_organizations[x].id)

\* C4: one source user never gets two user upserts with the same loginId:
\* identities that resolve to one loginId are merged into one write.
C4_OneUpsertPerLoginId ==
  \A i, j \in DOMAIN log :
     ( /\ IsUpsert(i)
       /\ IsUpsert(j)
       /\ log[i].ctx.i = log[j].ctx.i
       /\ log[i].request.data.loginId = log[j].request.data.loginId ) => i = j

\* C5: when a page request ends with the call layer's None, the reader
\* returns the items of the earlier pages and raises nothing.
C5_SentinelTruncatesListing ==
  (log # <<>> /\ log[Len(log)].res = NoneResponse /\ cl.state = "idle") =>
    LET L == Listing(rd.fn, rd.arg)
    IN  /\ pc = "done"
        /\ exc = "none"
        /\ rd.all = SubSeq(L, 1, Min2(Len(L), 20 * (Len(log) - 1)))

\* C6: in a live run of the Roles or Organizations domain whose reads all
\* succeed, a failed write (non-2xx response or None) stops nothing: the run
\* ends with every role, or every organization, of the list processed.
C6_WriteFailureKeepsDomainGoing ==
  ( /\ ~dry_run
    /\ entry \in {"process_roles", "process_auth0_organizations"}
    /\ Terminal
    /\ \A i \in DOMAIN log : log[i].request.method = "get" => log[i].res = Ok200 ) =>
    LET items == IF entry = "process_roles" THEN source.fetch_auth0_roles
                 ELSE source.fetch_auth0_organizations
    IN  /\ pc = "done"
        /\ \A x \in DOMAIN items : \E i \in DOMAIN log : log[i].ctx.i = x

\* C7: a run of main none of whose calls ends in None issues its requests
\* domain by domain: all of Users, then all of Roles, then all of
\* Organizations.
C7_DomainsInOrder ==
  (entry = "main" /\ Terminal /\ \A i \in DOMAIN log : log[i].res # NoneResponse) =>
    /\ \A i, j \in DOMAIN log :
          i < j => DomainRank(log[i].ctx.domain) <= DomainRank(log[j].ctx.domain)
    /\ DomainsSeen = AllDomains

\* m occurs in c, stated on positions
HasInfix(m, c) ==
  \E a \in 0..Len(c) :
     a + Len(m) <= Len(c) /\ \A n \in 1..Len(m) : c[a + n] = m[n]

\* the text of c before its first hyphen
BeforeFirstHyphen(c) ==
  LET n == CHOOSE n \in 1..Len(c) : c[n] = "-" /\ \A j \in 1..(n - 1) : c[j] # "-"
  IN  [j \in 1..(n - 1) |-> c[j]]

\* the rule of the claim that applies to a connection: the first that matches
C8_RuleOf(c) ==
  IF HasInfix(<<"U","s","e","r","n","a","m","e">>, c) THEN 1
  ELSE IF HasInfix(<<"s","m","s">>, c) THEN 2
  ELSE IF HasInfix(<<"-">>, c) THEN 3
  ELSE 4

C8_Expected(user, identity) ==
  LET c == identity.connection
      n == C8_RuleOf(c)
  IN  CASE n = 1 -> IF "email" \in DOMAIN user THEN user.email ELSE NoneStr
        [] n = 2 -> IF "phone_number" \in DOMAIN user THEN user.phone_number ELSE NoneStr
        [] n = 3 -> BeforeFirstHyphen(c) \o <<"-">> \o identity.user_id
        [] OTHER -> c \o <<"-">> \o identity.user_id

UpsertsOf(x) == {i \in DOMAIN log : IsUpsert(i) /\ log[i].ctx.i = x}
WellFormed(user) ==
  \A n \in DOMAIN user.identities :
     {"connection", "user_id"} \subseteq DOMAIN user.identities[n]
NoSentinelFor(x) ==
  \A i \in DOMAIN log :
     (log[i].request.method = "post" /\ log[i].ctx.i = x) => log[i].res # NoneResponse
FinishedUser(x) ==
  /\ ~dry_run
  /\ \/ pc \in {"users_loop", "identity_loop", "upsert_wait", "status_wait"} /\ usr.i > x
     \/ pc \in {"done", "main_unpack_users"}
     \/ pc = "raised" /\ exc = "TypeError"

\* C8: every user upsert carries the loginId that the first matching rule
\* gives for its identity (Username -> email, sms -> phone_number, hyphen ->
\* text before the first hyphen + "-" + user_id, else connection + "-" +
\* user_id); the upserts of one user follow the order of the identities, one
\* per identity, and are as many as the identities once a well-formed user
\* is processed without a call ending in None.
C8_LoginIdByFirstMatchingRule ==
  /\ \A i \in DOMAIN log :
        IsUpsert(i) =>
          LET x == log[i].ctx.i
              user == auth0_users[x]
          IN  /\ log[i].request.data.loginId = C8_Expected(user, user.identities[log[i].ctx.k])
              /\ log[i].ctx.k = Cardinality({j \in UpsertsOf(x) : j < i}) + 1
  /\ \A x \in DOMAIN auth0_users :
        (FinishedUser(x) /\ WellFormed(auth0_users[x]) /\ NoSentinelFor(x)) =>
          Cardinality(UpsertsOf(x)) = Len(auth0_users[x].identities)

C8_Witness ==
  /\ pc = "done"
  /\ auth0_users = <<User_A, User_C>>
  /\ \E a, b, c, d \in DOMAIN log :
        /\ a < b /\ b < c /\ c < d
        /\ IsUpsert(a) /\ IsUpsert(b) /\ IsUpsert(c) /\ IsUpsert(d)
        /\ log[a].request.data.loginId = S_mailA
        /\ log[b].request.data.loginId = S_phoneA
        /\ log[c].request.data.loginId = <<"g","o","o","g","l","e","-","g","1">>
        /\ log[d].request.data.loginId = <<"g","i","t","h","u","b","-","h","1">>

\* C9: with every page request answered 200 at once, a reader asks for the
\* pages 0, 1, 2, ... in this order, 20 objects a page, stops after the
\* first empty page, that is after ceil(N/20)+1 requests, and returns the N
\* objects of the listing in their order.
C9_ReaderDrainsListing ==
  /\ \A i \in DOMAIN log :
        Fn(i) \in ReaderFns =>
          /\ log[i].request.data.per_page = 20
          /\ i = 1 \/ Fn(i - 1) # Fn(i) \/ log[i - 1].request.data.arg # log[i].request.data.arg
               \/ log[i].request.data.page = log[i - 1].request.data.page + 1
  /\ (entry \in ReaderFns /\ pc = "done" /\ CleanLog) =>
       LET L == Listing(rd.fn, rd.arg)
       IN  /\ Len(log) = (Len(L) + 19) \div 20 + 1
           /\ \A i \in DOMAIN log : log[i].request.data.page = i - 1
           /\ rd.all = L

C9_Witness ==
  /\ entry \in ReaderFns
  /\ pc = "done"
  /\ CleanLog
  /\ Len(log) = 4
  /\ Len(rd.all) > 40

C11_CallBoundedAndNever429 ==
  /\ cl.attempts <= 4
  /\ cl.state = "returned" =>
       \/ cl.response = NoneResponse
       \/ /\ cl.response.kind = "Response"
          /\ cl.response.status_code # 429
          /\ cl.last = "response"
          /\ cl.attempts = cl.retries + 1
  /\ cl.state = "running" => cl.attempts = cl.retries /\ cl.last # "response"
  /\ \A i \in DOMAIN log :
        log[i].res.kind = "Response" => log[i].res.status_code # 429

C11_Witness ==
  /\ cl.state = "returned"
  /\ cl.attempts = 4
  /\ cl.rate_limits \in 1..2
  /\ cl.response.kind = "Response"
  /\ cl.response.status_code = 500

\* C12: a call answered 429 on its attempts 1, 2 and 3 and with another
\* status on attempt 4 has waited 5, then 25, then 125 seconds, once after
\* each of the three attempts, and returns the response of attempt 4.
C12_BackoffSequence ==
  (cl.state = "returned" /\ cl.rate_limits = 3 /\ cl.response.kind = "Response") =>
    /\ cl.waits = <<5, 25, 125>>
    /\ cl.attempts = 4
    /\ cl.last = "response"
    /\ log[Len(log)].res = Outcome(cl.response)

C12_Witness ==
  /\ cl.state = "returned"
  /\ cl.rate_limits = 3
  /\ cl.response.kind = "Response"
  /\ cl.response.status_code = 200
  /\ cl.waits = <<5, 25, 125>>

\* C13: a transport failure other than a read timeout ends the call with
\* the attempt it hits: None is returned, no wait follows that attempt and
\* no attempt follows it, however many retries were left.
C13_TransportFailureEndsCall ==
  /\ [](cl.last = "request_exception" =>
          /\ cl.state = "returned"
          /\ cl.response = NoneResponse
          /\ Len(cl.waits) = cl.retries
          /\ cl.attempts = cl.retries + 1)
  /\ [][cl.last = "request_exception" =>
          cl'.last # "request_exception" \/ cl' = cl]_vars

C13_Witness ==
  /\ cl.last = "request_exception"
  /\ cl.state = "returned"
  /\ cl.retries = 2
  /\ cl.attempts = 3
  /\ cl.waits = <<5, 25>>

\* process_users has returned to its caller
ProcessUsersReturned ==
  \/ pc \in {"done", "main_unpack_users"}
  \/ pc = "raised" /\ exc = "TypeError"

\* C14: in a live process_users no exception met while one user is
\* processed (KeyError on an identity field, AttributeError on a call that
\* returned None) leaves the batch: the only exceptions of the run are the
\* reader's, before the batch, and main's, after it, and once the batch has
\* returned every user of the list has been handed to create_descope_user.
C14_UserFailureContained ==
  (~dry_run /\ entry \in {"main", "process_users"}) =>
    /\ pc = "raised" =>
         /\ entry = "main"
         /\ \/ exc = "TypeError"
            \/ exc = "AttributeError" /\ Fn(Len(log)) = "fetch_auth0_users"
    /\ ProcessUsersReturned =>
         \A x \in DOMAIN auth0_users :
            LET ids == Identities(auth0_users[x])
            IN  (ids # <<>> /\ {"connection", "user_id"} \subseteq DOMAIN ids[1]) =>
                  \E i \in UpsertsOf(x) : log[i].ctx.k = 1

C14_Witness ==
  /\ ~dry_run
  /\ pc = "done"
  /\ auth0_users = <<User_D, User_A>>
  /\ \E i \in DOMAIN log : UpsertsOf(1) = {i} /\ log[i].res = Ok200
  /\ \E i \in UpsertsOf(2) : log[i].res = NoneResponse

\* C16: a status write for an identity comes right after the upsert of that
\* identity and only when the upsert was reported a success; an upsert that
\* came back otherwise is followed by no status write for its identity.
C16_StatusOnlyAfterSuccessfulUpsert ==
  \A j \in DOMAIN log :
     /\ Fn(j) = "update_user_status" =>
          /\ j > 1
          /\ IsUpsert(j - 1)
          /\ log[j - 1].ctx = log[j].ctx
          /\ log[j - 1].request.data.loginId = log[j].request.data.loginId
          /\ log[j - 1].res.kind = "Response"
          /\ log[j - 1].res.status_code \in 200..299
     /\ (IsUpsert(j) /\ (NonSuccess(log[j].res) \/ log[j].res = NoneResponse)) =>
          \A n \in DOMAIN log :
             Fn(n) = "update_user_status" => log[n].ctx # log[j].ctx

C16_Witness ==
  /\ pc = "done"
  /\ auth0_users = <<User_A>>
  /\ Len(log) = 3
  /\ IsUpsert(1) /\ log[1].res = Ok200
  /\ Fn(2) = "update_user_status" /\ log[2].request.data.loginId = S_mailA
  /\ IsUpsert(3) /\ NonSuccess(log[3].res)

\* C20: an upsert answered with any status of 200..299 is a success, so
\* that the status write of its identity follows it; with any other status
\* it is a failure.
C20_SuccessIsAny2xx ==
  \A i \in DOMAIN log :
     (IsUpsert(i) /\ log[i].res.kind = "Response" /\ ~(i = Len(log) /\ pc = "upsert_wait")) =>
       ( log[i].res.status_code \in 200..299
         <=> /\ i < Len(log)
             /\ Fn(i + 1) = "update_user_status"
             /\ log[i + 1].ctx = log[i].ctx )

\* C15: a role-membership write comes after the role write of its role has
\* returned, a tenant-membership write after the tenant write of its tenant
\* has returned; an organization without members gets one tenant write and
\* no membership write.
C15_ParentBeforeMembership ==
  /\ \A j \in DOMAIN log :
        /\ Fn(j) = "add_user_to_descope_role" =>
             \E i \in 1..(j - 1) :
                /\ Fn(i) = "create_descope_role"
                /\ log[i].ctx.i = log[j].ctx.i
                /\ log[j].request.data.roleNames = <<log[i].request.data.name>>
                /\ log[i].res # Pending
        /\ Fn(j) = "add_descope_user_to_tenant" =>
             \E i \in 1..(j - 1) :
                /\ Fn(i) = "create_descope_tenant"
                /\ log[i].request.data.id = log[j].request.data.tenantId
                /\ log[i].res # Pending
  /\ (entry = "process_auth0_organizations" /\ ~dry_run /\ pc = "done") =>
        \A x \in DOMAIN source.fetch_auth0_organizations :
           LET id == source.fetch_auth0_organizations[x].id
           IN  source.fetch_auth0_organization_members[id] = <<>> =>
                 /\ Cardinality({i \in DOMAIN log : Fn(i) = "create_descope_tenant"
                                                    /\ log[i].request.data.id = id}) = 1
                 /\ \A i \in DOMAIN log :
                       Fn(i) = "add_descope_user_to_tenant" =>
                         log[i].request.data.tenantId # id

C15_Witness ==
  /\ entry = "process_auth0_organizations"
  /\ ~dry_run
  /\ pc = "done"
  /\ source.fetch_auth0_organizations = <<Org_Acme, Org_Beta>>
  /\ Cardinality({i \in DOMAIN log : Fn(i) = "create_descope_tenant"}) = 2
  /\ Cardinality({i \in DOMAIN log : Fn(i) = "add_descope_user_to_tenant"}) = 2

\* the permissions get_permissions_for_role returned for the role at place
\* x of the list: the pages answered 200
FetchedPermissions(x) ==
  LET L == source.get_permissions_for_role[source.fetch_auth0_roles[x].id]
      n == Cardinality({i \in DOMAIN log : /\ Fn(i) = "get_permissions_for_role"
                                           /\ log[i].ctx.i = x
                                           /\ log[i].res = Ok200})
  IN  SubSeq(L, 1, Min2(Len(L), 20 * n))
PermissionWrites(x) ==
  {i \in DOMAIN log : Fn(i) = "create_descope_permission" /\ log[i].ctx.i = x}

\* C18: the role write of a role comes after all permission writes of that
\* role, one for each permission fetched, and carries the names of all the
\* permissions fetched, in their order, whatever the permission writes were
\* answered.
C18_RoleCarriesAllPermissionNames ==
  \A j \in DOMAIN log :
     Fn(j) = "create_descope_role" =>
       LET x == log[j].ctx.i
           fetched == FetchedPermissions(x)
       IN  /\ \A i \in PermissionWrites(x) : i < j /\ log[i].res # Pending
           /\ Cardinality(PermissionWrites(x)) = Len(fetched)
           /\ \A i \in PermissionWrites(x) :
                 log[i].request.data.name =
                   fetched[Cardinality({n \in PermissionWrites(x) : n <= i})].permission_name
           /\ log[j].request.data.permissionNames =
                 [n \in 1..Len(fetched) |-> fetched[n].permission_name]

C18_Witness ==
  \E i, j \in DOMAIN log :
     /\ i < j
     /\ Fn(i) = "create_descope_permission"
     /\ log[i].request.data.name = "read:x"
     /\ NonSuccess(log[i].res)
     /\ Fn(j) = "create_descope_role"
     /\ log[j].ctx.i = log[i].ctx.i
     /\ log[j].request.data.permissionNames = <<"read:x", "write:x">>
     /\ log[j].res = Ok200

\* the loginIds create_descope_user writes for a source user
ResolvedLoginIds(user) ==
  {LoginId(user, Identities(user)[k]) :
     k \in {n \in DOMAIN Identities(user) : ~LoginIdRaises(user, Identities(user)[n])}}

\* C19: a membership write for a member who is a user of the source user
\* list carries one of the loginIds that the Users domain writes for that
\* user.
C19_MembershipUsesResolvedLoginId ==
  \A j \in DOMAIN log :
     Fn(j) \in {"add_user_to_descope_role", "add_descope_user_to_tenant"} =>
       \A n \in DOMAIN source.fetch_auth0_users :
          LET user == source.fetch_auth0_users[n]
          IN  ("email" \in DOMAIN user /\ user.email = log[j].request.data.loginId) =>
                log[j].request.data.loginId \in ResolvedLoginIds(user)

\* the write requests of a log, in the order they were issued
IsWrite(e) == e.request.method = "post"
Requests(l) == [n \in DOMAIN l |-> l[n].request]
WriteRequests(l) == Requests(SelectSeq(l, IsWrite))

\* a target that applies every write it answered with a 2xx status as an
\* upsert: the record under the write's key becomes the write's data
Applied(e) == IsWrite(e) /\ e.res.kind = "Response" /\ e.res.status_code \in 200..299
KeyOf(req) ==
  CASE req.fn \in {"create_or_update_user", "update_user_status", "add_user_to_descope_role"}
         -> <<req.url, req.data.loginId>>
    [] req.fn \in {"create_descope_permission", "create_descope_role"}
         -> <<req.url, req.data.name>>
    [] req.fn = "create_descope_tenant"
         -> <<req.url, req.data.id>>
    [] OTHER
         -> <<req.url, req.data.loginId, req.data.tenantId>>
SameKey(a, b) == a.url = b.url /\ KeyOf(a) = KeyOf(b)
SameRequest(a, b) == a.fn = b.fn /\ a.data = b.data
\* the place in l of the write that set the record under the key of req
LastUpsert(l, req) ==
  LET S == {n \in DOMAIN l : Applied(l[n]) /\ SameKey(l[n].request, req)}
  IN  IF S = {} THEN 0 ELSE CHOOSE n \in S : \A m \in S : m <= n
SameTarget(a, b) ==
  \A l \in {a, b} : \A n \in DOMAIN l :
     IsWrite(l[n]) =>
       LET x == LastUpsert(a, l[n].request)
           y == LastUpsert(b, l[n].request)
       IN  /\ (x = 0) = (y = 0)
           /\ x # 0 => SameRequest(a[x].request, b[y].request)

C21_NoWaitAfterLastAttempt ==
  cl.state = "returned" =>
    /\ Len(cl.waits) < cl.attempts
    /\ (cl.attempts = max_retries /\ cl.last \in {"rate_limit", "read_timeout"}) =>
          /\ cl.response = NoneResponse
          /\ cl.waits = <<5, 25, 125>>

\* the status the blocked flag of a source user asks for
C22_Expected(user) ==
  IF "blocked" \in DOMAIN user /\ user.blocked = TRUE THEN "disabled" ELSE "enabled"

\* C22: an upsert answered 200 is followed by the status write of its
\* identity, and a status write carries "disabled" when the source user it
\* belongs to is blocked and "enabled" when the user is not blocked or has
\* no blocked flag; all status writes of one source user carry the same
\* status.
C22_StatusFollowsBlockedFlag ==
  \A j \in DOMAIN log :
     /\ (IsUpsert(j) /\ log[j].res = Ok200 /\ ~(j = Len(log) /\ pc = "upsert_wait")) =>
          /\ j < Len(log)
          /\ Fn(j + 1) = "update_user_status"
          /\ log[j + 1].ctx = log[j].ctx
     /\ Fn(j) = "update_user_status" =>
          /\ log[j].request.data.status = C22_Expected(auth0_users[log[j].ctx.i])
          /\ \A n \in DOMAIN log :
                (Fn(n) = "update_user_status" /\ log[n].ctx.i = log[j].ctx.i) =>
                  log[n].request.data.status = log[j].request.data.status

C22_Witness ==
  /\ pc = "done"
  /\ auth0_users = <<User_B, User_C>>
  /\ Cardinality({j \in DOMAIN log : /\ Fn(j) = "update_user_status"
                                     /\ log[j].ctx.i = 1
                                     /\ log[j].request.data.status = "disabled"}) = 2
  /\ \E j \in DOMAIN log : /\ Fn(j) = "update_user_status"
                           /\ log[j].ctx.i = 2
                           /\ log[j].request.data.status = "enabled"

\* the calls made for the user at place x of the list
CallsOf(x) == {n \in DOMAIN log : log[n].ctx.domain = "Users" /\ log[n].ctx.i = x}
\* the run is past the point where it looks at what call j returned
Handled(j) == log[j].res # Pending /\ (j < Len(log) \/ pc \notin {"upsert_wait", "status_wait"})
\* the run is past the point where the identity after the one of call j begins
MovedOn(j) == Handled(j) /\ (j < Len(log) \/ pc # "identity_loop")

\* C23: within one user, an identity that raises (a missing field, a call
\* that returned None) is the last one of that user a request is made for;
\* an upsert answered with a status that is not a success is followed by the
\* upsert of the user's next identity; and no call once made is taken back.
C23_RaiseEndsUserFailureDoesNot ==
  /\ [](\A x \in DOMAIN auth0_users :
          LET user == auth0_users[x]
              ids == Identities(user)
          IN  /\ \A k \in DOMAIN ids :
                    LoginIdRaises(user, ids[k]) =>
                      \A n \in CallsOf(x) : log[n].ctx.k < k
              /\ \A j \in CallsOf(x) :
                    /\ log[j].res = NoneResponse =>
                         \A n \in CallsOf(x) : n <= j
                    /\ (IsUpsert(j) /\ NonSuccess(log[j].res) /\ MovedOn(j)
                          /\ log[j].ctx.k < Len(ids)
                          /\ ~LoginIdRaises(user, ids[log[j].ctx.k + 1])) =>
                         /\ j < Len(log)
                         /\ IsUpsert(j + 1)
                         /\ log[j + 1].ctx.i = x
                         /\ log[j + 1].ctx.k = log[j].ctx.k + 1)
  /\ [][/\ Len(log') >= Len(log)
        /\ \A n \in DOMAIN log :
              /\ log'[n].request = log[n].request
              /\ log'[n].ctx = log[n].ctx
              /\ log[n].res # Pending => log'[n].res = log[n].res]_vars

C23_Witness ==
  /\ pc = "done"
  /\ ~dry_run
  /\ auth0_users = <<User_D, User_A>>
  /\ Len(log) = 4
  /\ IsUpsert(1) /\ log[1].res = Ok200 /\ log[1].ctx.i = 1 /\ log[1].ctx.k = 1
  /\ Fn(2) = "update_user_status" /\ log[2].ctx.i = 1
  /\ IsUpsert(3) /\ NonSuccess(log[3].res) /\ log[3].ctx.i = 2 /\ log[3].ctx.k = 1
  /\ IsUpsert(4) /\ log[4].res = NoneResponse /\ log[4].ctx.i = 2 /\ log[4].ctx.k = 2

====
